---- MODULE Spec2Model ----
(***************************************************************************)
(* tester: a command-line harness that runs an external program `times`    *)
(* times on `threads` worker threads, aggregating run, failure and score   *)
(* counts (src/main.rs).  The model has one process for main, one per      *)
(* worker thread, and the ctrl-c handler thread.  Every action performs at *)
(* most one access to shared state (an atomic, the mutex or a child        *)
(* process), so every interleaving of the threads is explored.             *)
(***************************************************************************)
EXTENDS Integers, Sequences, FiniteSets, TLC

\* ------------------------------------------------------------------ bounds
MaxTimes == 2       \* largest -n explored
MaxThreads == 2     \* largest -p explored

Workers == 1..MaxThreads

\* stdout texts a child may print, as sequences of characters
Outputs == { <<" ", "2", " ">>, <<"x">> }

NoScore == -1       \* Err(_) of str::parse::<f64>

VARIABLES
    cli_args,          \* Cli: [times, threads, progress, score]
    fail_times,        \* TesterInfo.fail_times   (AtomicU32)
    run_times,         \* TesterInfo.run_times    (AtomicU32)
    total_scores,      \* TesterInfo.total_scores (value inside the Mutex)
    lock_owner,        \* holder of the total_scores mutex, 0 when free
    ctrlc_signal,      \* TesterInfo.ctrlc_signal (AtomicBool)
    mainpc,            \* position of main
    spawn_i,           \* index of the distribution loop `for _ in 0..threads`
    times_extra,       \* main's local times_extra
    handles,           \* main's vec of join handles (worker ids)
    join_i,            \* number of handles already joined
    current_progress,  \* the progress loop's current_progress
    bar_position,      \* last position given to progress_bar.set_position
    bar_finished,      \* number of calls of progress_bar.finish
    summaries,         \* what print_summary printed, one record per call
    exit_code,         \* process exit status, -1 while running
    handler_set,       \* ctrlc::set_handler has registered the handler
    wpc,               \* position of each worker thread
    arg,               \* the `times` argument each worker's do_test got
    it,                \* iterations started of `for _ in 0..times`
    w_run_times,       \* do_test's local run_times
    w_fail_times,      \* do_test's local fail_times
    w_total_scores,    \* do_test's local total_scores
    share,             \* history: times_this_thread when the worker was launched
    spawned,           \* history: children spawned by each worker
    completed,         \* history: children waited for by each worker
    childFailed,       \* history: children that exited unsuccessfully
    childScores,       \* history: sum of the scores parsed by each worker
    lateSpawn,         \* history: children spawned while ctrlc_signal was set
    lateDone           \* history: children waited for while ctrlc_signal was set

mainVars == << mainpc, spawn_i, times_extra, handles, join_i, current_progress,
               bar_position, bar_finished, summaries, exit_code >>
sharedVars == << fail_times, run_times, total_scores, lock_owner, ctrlc_signal >>
handlerVars == << handler_set >>
localVars == << wpc, arg, it, w_run_times, w_fail_times, w_total_scores >>
historyVars == << share, spawned, completed, childFailed, childScores,
                  lateSpawn, lateDone >>
vars == << cli_args, mainVars, sharedVars, handlerVars, localVars, historyVars >>

\* ---------------------------------------------------------------- helpers
RECURSIVE SumTo(_, _)
SumTo(f, n) == IF n = 0 THEN 0 ELSE f[n] + SumTo(f, n - 1)

Sum(f) == SumTo(f, MaxThreads)

Max(a, b) == IF a >= b THEN a ELSE b

Running == exit_code = -1

Launched == { w \in Workers : wpc[w] # "none" }

AnyPanicked == \E w \in Workers : wpc[w] = "panicked"

\* a store in place of the read-modify-write: concurrent increments are lost
FetchAddLost(a, b) == b

\* AtomicU32::fetch_add.  It wraps at 2^32, which no run reaches: each counter
\* is a sum of per-iteration increments and there are at most cli_args.times
\* (a u32) iterations.
FetchAdd(a, b) == a + b

\* str::trim
RECURSIVE TrimStart(_)
TrimStart(s) == IF s # << >> /\ Head(s) = " " THEN TrimStart(Tail(s)) ELSE s

RECURSIVE TrimEnd(_)
TrimEnd(s) ==
    IF s # << >> /\ s[Len(s)] = " " THEN TrimEnd(SubSeq(s, 1, Len(s) - 1)) ELSE s

Trim(s) == TrimEnd(TrimStart(s))

\* str::parse::<f64> on the texts of Outputs
ParseF64(s) ==
    IF s = <<"1">> THEN 1 ELSE IF s = <<"2">> THEN 2 ELSE NoScore

\* ------------------------------------------------------------------- main
\* the clamp with a wrong lower limit
threads_clamped_to_two == Max(cli_args.threads, 2)

\* `let threads = std::cmp::max(test_info.cli_args.threads, 1)`
threads == Max(cli_args.threads, 1)

times_per_thread == cli_args.times \div threads

\* the share without the remainder's extra iteration
times_this_thread_no_extra == times_per_thread

\* the share computed for the loop's current worker
times_this_thread == times_per_thread + (IF times_extra > 0 THEN 1 ELSE 0)

\* every worker handed the whole of `times`
DoTestArgAll(per_thread, this_thread) == cli_args.times

\* the argument the spawned closure passes to do_test
DoTestArg(per_thread, this_thread) == per_thread

Init ==
    /\ cli_args \in [ times : 0..MaxTimes, threads : 0..MaxThreads,
                      progress : BOOLEAN, score : BOOLEAN ]
    /\ fail_times = 0
    /\ run_times = 0
    /\ total_scores = 0
    /\ lock_owner = 0
    /\ ctrlc_signal = FALSE
    /\ mainpc = "distribute"
    /\ spawn_i = 0
    /\ times_extra = cli_args.times % threads
    /\ handles = << >>
    /\ join_i = 0
    /\ current_progress = 0
    /\ bar_position = 0
    /\ bar_finished = 0
    /\ summaries = << >>
    /\ exit_code = -1
    /\ handler_set = FALSE
    /\ wpc = [w \in Workers |-> "none"]
    /\ arg = [w \in Workers |-> 0]
    /\ it = [w \in Workers |-> 0]
    /\ w_run_times = [w \in Workers |-> 0]
    /\ w_fail_times = [w \in Workers |-> 0]
    /\ w_total_scores = [w \in Workers |-> 0]
    /\ share = [w \in Workers |-> 0]
    /\ spawned = [w \in Workers |-> 0]
    /\ completed = [w \in Workers |-> 0]
    /\ childFailed = [w \in Workers |-> 0]
    /\ childScores = [w \in Workers |-> 0]
    /\ lateSpawn = [w \in Workers |-> 0]
    /\ lateDone = [w \in Workers |-> 0]

\* one iteration of `for _ in 0..threads`: compute the share, launch a worker
MainSpawn ==
    /\ Running
    /\ mainpc = "distribute"
    /\ spawn_i < threads
    /\ times_this_thread > 0
    /\ LET w == Len(handles) + 1 IN
        /\ handles' = Append(handles, w)
        /\ wpc' = [wpc EXCEPT ![w] = "check"]
        /\ arg' = [arg EXCEPT ![w] = DoTestArg(times_per_thread, times_this_thread)]
        /\ share' = [share EXCEPT ![w] = times_this_thread]
    /\ times_extra' = IF times_extra > 0 THEN times_extra - 1 ELSE times_extra
    /\ spawn_i' = spawn_i + 1
    /\ mainpc' = IF spawn_i + 1 = threads THEN "set_handler" ELSE "distribute"
    /\ UNCHANGED << cli_args, join_i, current_progress, bar_position, bar_finished,
                    summaries, exit_code, sharedVars, handlerVars, it, w_run_times,
                    w_fail_times, w_total_scores, spawned, completed, childFailed,
                    childScores, lateSpawn, lateDone >>

\* `if times_this_thread <= 0 { break; }`
MainSpawnBreak ==
    /\ Running
    /\ mainpc = "distribute"
    /\ spawn_i < threads
    /\ times_this_thread <= 0
    /\ mainpc' = "set_handler"
    /\ UNCHANGED << cli_args, spawn_i, times_extra, handles, join_i, current_progress,
                    bar_position, bar_finished, summaries, exit_code, sharedVars,
                    handlerVars, localVars, historyVars >>

\* ctrlc::set_handler, then `if test_info.cli_args.progress` and the first
\* get_progress
MainSetHandler ==
    /\ Running
    /\ mainpc = "set_handler"
    /\ handler_set' = TRUE
    /\ IF cli_args.progress
       THEN /\ current_progress' = run_times
            /\ mainpc' = "loop_test"
       ELSE /\ current_progress' = current_progress
            /\ mainpc' = "join"
    /\ UNCHANGED << cli_args, spawn_i, times_extra, handles, join_i, bar_position,
                    bar_finished, summaries, exit_code, sharedVars, localVars,
                    historyVars >>

\* `while current_progress < total_progress { if ctrlc_signaled() { break; }`
MainLoopTest ==
    /\ Running
    /\ mainpc = "loop_test"
    /\ mainpc' = IF current_progress < cli_args.times /\ ~ctrlc_signal
                 THEN "loop_poll" ELSE "finish"
    /\ UNCHANGED << cli_args, spawn_i, times_extra, handles, join_i, current_progress,
                    bar_position, bar_finished, summaries, exit_code, sharedVars,
                    handlerVars, localVars, historyVars >>

\* get_progress, set_position, sleep
MainLoopPoll ==
    /\ Running
    /\ mainpc = "loop_poll"
    /\ current_progress' = run_times
    /\ bar_position' = run_times
    /\ mainpc' = "loop_test"
    /\ UNCHANGED << cli_args, spawn_i, times_extra, handles, join_i, bar_finished,
                    summaries, exit_code, sharedVars, handlerVars, localVars,
                    historyVars >>

\* progress_bar.finish()
MainFinish ==
    /\ Running
    /\ mainpc = "finish"
    /\ bar_finished' = bar_finished + 1
    /\ mainpc' = "join"
    /\ UNCHANGED << cli_args, spawn_i, times_extra, handles, join_i, current_progress,
                    bar_position, summaries, exit_code, sharedVars, handlerVars,
                    localVars, historyVars >>

\* handle.join().unwrap() of the next handle: blocks until that worker has
\* ended; a worker that panicked makes main panic, which ends the process
MainJoin ==
    /\ Running
    /\ mainpc = "join"
    /\ join_i < Len(handles)
    /\ wpc[handles[join_i + 1]] \in {"done", "panicked"}
    /\ IF wpc[handles[join_i + 1]] = "panicked"
       THEN /\ exit_code' = 101
            /\ mainpc' = "exit_fail"
            /\ join_i' = join_i
       ELSE /\ exit_code' = exit_code
            /\ mainpc' = "join"
            /\ join_i' = join_i + 1
    /\ UNCHANGED << cli_args, spawn_i, times_extra, handles, current_progress,
                    bar_position, bar_finished, summaries, sharedVars, handlerVars,
                    localVars, historyVars >>

\* f64 division: x / 0.0 is NaN for x = 0.0 and infinite otherwise, never a panic
F64Div(num, den) ==
    [ kind |-> IF den # 0 THEN "number" ELSE IF num = 0 THEN "NaN" ELSE "inf",
      num |-> num, den |-> den ]

\* the average taken over all the runs, failed ones included
AvgDenominatorAllRuns(fails, runs) == runs

\* what the total is divided by: `run_times - fail_times` in the failure
\* branch, `run_times` in the other
AvgDenominator(fails, runs) == IF fails > 0 THEN runs - fails ELSE runs

\* what print_summary prints from the three values it read: the form of the
\* first line and, when score_line, the average; underflow tells that the u32
\* subtraction `run_times - fail_times` was evaluated with run_times < fail_times
SummaryOf(fails, runs, total) ==
    [ fail_times |-> fails, run_times |-> runs, total_score |-> total,
      form |-> IF fails > 0 THEN "Failed" ELSE "No failure",
      score_line |-> cli_args.score,
      underflow |-> cli_args.score /\ fails > 0 /\ runs < fails,
      average |-> F64Div(total, AvgDenominator(fails, runs)) ]

\* the summary printed without joining the workers
MainSummaryEarly ==
    /\ Running
    /\ mainpc = "join"
    /\ lock_owner = 0
    /\ summaries' = Append(summaries, SummaryOf(fail_times, run_times, total_scores))
    /\ exit_code' = 0
    /\ mainpc' = "exit_ok"
    /\ UNCHANGED << cli_args, spawn_i, times_extra, handles, join_i, current_progress,
                    bar_position, bar_finished, sharedVars, handlerVars, localVars,
                    historyVars >>

\* test_info.print_summary() and the return from main
MainSummary ==
    /\ Running
    /\ mainpc = "join"
    /\ join_i = Len(handles)
    /\ lock_owner = 0
    /\ summaries' = Append(summaries, SummaryOf(fail_times, run_times, total_scores))
    /\ exit_code' = 0
    /\ mainpc' = "exit_ok"
    /\ UNCHANGED << cli_args, spawn_i, times_extra, handles, join_i, current_progress,
                    bar_position, bar_finished, sharedVars, handlerVars, localVars,
                    historyVars >>

\* ---------------------------------------------------------- ctrl-c handler
\* a handler that flips the flag on every interrupt
CtrlCToggle ==
    /\ Running
    /\ handler_set
    /\ ctrlc_signal' = ~ctrlc_signal
    /\ UNCHANGED << cli_args, mainVars, fail_times, run_times, total_scores,
                    lock_owner, handler_set, localVars, historyVars >>

\* the handler runs on every interrupt, any number of times
CtrlC ==
    /\ Running
    /\ handler_set
    /\ ctrlc_signal' = TRUE
    /\ UNCHANGED << cli_args, mainVars, fail_times, run_times, total_scores,
                    lock_owner, handler_set, localVars, historyVars >>

\* ---------------------------------------------------------------- workers
\* a check that never sees the flag
ctrlc_signaled_never == FALSE

\* TesterInfo::ctrlc_signaled
ctrlc_signaled == ctrlc_signal

\* `return` in place of `break`: the partial counts are not merged
AfterLoopReturn == "done"

\* where `break` and the end of the for loop lead: append_result
AfterLoop == "result"

\* `for _ in 0..times { if self.ctrlc_signaled() { break; }`
WorkerCheck(w) ==
    /\ Running
    /\ wpc[w] = "check"
    /\ IF it[w] < arg[w] /\ ~ctrlc_signaled
       THEN /\ wpc' = [wpc EXCEPT ![w] = "spawn"]
            /\ it' = [it EXCEPT ![w] = it[w] + 1]
       ELSE /\ wpc' = [wpc EXCEPT ![w] = AfterLoop]
            /\ it' = it
    /\ UNCHANGED << cli_args, mainVars, sharedVars, handlerVars, arg, w_run_times,
                    w_fail_times, w_total_scores, historyVars >>

\* program.spawn().expect(..): the child starts, or the worker panics
WorkerSpawn(w) ==
    /\ Running
    /\ wpc[w] = "spawn"
    /\ \E started \in BOOLEAN :
        IF started
        THEN /\ wpc' = [wpc EXCEPT ![w] = "wait"]
             /\ spawned' = [spawned EXCEPT ![w] = spawned[w] + 1]
             /\ lateSpawn' = [lateSpawn EXCEPT
                                ![w] = lateSpawn[w] + (IF ctrlc_signal THEN 1 ELSE 0)]
        ELSE /\ wpc' = [wpc EXCEPT ![w] = "panicked"]
             /\ UNCHANGED << spawned, lateSpawn >>
    /\ UNCHANGED << cli_args, mainVars, sharedVars, handlerVars, arg, it, w_run_times,
                    w_fail_times, w_total_scores, share, completed, childFailed,
                    childScores, lateDone >>

\* what one child's result adds to the local fail_times
FailDelta(success) == IF ~success THEN 1 ELSE 0

\* the stdout parsed whenever scoring is enabled, whatever the exit status
ScoredAnyStatus(success) == cli_args.score

\* whether the child's stdout is parsed as a score
Scored(success) == success /\ cli_args.score

\* no incremental update of run_times
IncrementalNever == FALSE

\* the incremental update made in both progress modes
IncrementalAlways == TRUE

\* `if self.cli_args.progress` after each iteration
Incremental == cli_args.progress

\* p_instance.wait_with_output().expect(..), then the handling of p_ret up to
\* `run_times += 1`: the child ends with a status and a stdout text, or the
\* wait fails and the worker panics; an unparsable score panics too
WorkerWait(w) ==
    /\ Running
    /\ wpc[w] = "wait"
    /\ \E waited \in BOOLEAN, success \in BOOLEAN, std_out \in Outputs :
        LET score == ParseF64(Trim(std_out)) IN
        IF ~waited \/ (Scored(success) /\ score = NoScore)
        THEN /\ wpc' = [wpc EXCEPT ![w] = "panicked"]
             /\ completed' = [completed EXCEPT
                                ![w] = completed[w] + (IF waited THEN 1 ELSE 0)]
             /\ childFailed' = [childFailed EXCEPT
                                  ![w] = childFailed[w]
                                         + (IF waited /\ ~success THEN 1 ELSE 0)]
             /\ lateDone' = [lateDone EXCEPT
                               ![w] = lateDone[w]
                                      + (IF waited /\ ctrlc_signal THEN 1 ELSE 0)]
             /\ UNCHANGED << w_run_times, w_fail_times, w_total_scores, childScores >>
        ELSE /\ wpc' = [wpc EXCEPT ![w] = IF Incremental THEN "progress" ELSE "check"]
             /\ w_run_times' = [w_run_times EXCEPT ![w] = w_run_times[w] + 1]
             /\ w_fail_times' = [w_fail_times EXCEPT
                                   ![w] = w_fail_times[w] + FailDelta(success)]
             /\ w_total_scores' = [w_total_scores EXCEPT
                                     ![w] = w_total_scores[w]
                                            + (IF Scored(success) THEN score ELSE 0)]
             /\ completed' = [completed EXCEPT ![w] = completed[w] + 1]
             /\ childFailed' = [childFailed EXCEPT
                                  ![w] = childFailed[w] + (IF success THEN 0 ELSE 1)]
             /\ childScores' = [childScores EXCEPT
                                  ![w] = childScores[w]
                                         + (IF Scored(success) THEN score ELSE 0)]
             /\ lateDone' = [lateDone EXCEPT
                               ![w] = lateDone[w] + (IF ctrlc_signal THEN 1 ELSE 0)]
    /\ UNCHANGED << cli_args, mainVars, sharedVars, handlerVars, arg, it, share,
                    spawned, lateSpawn >>

\* `self.append_run_times(1)` of an iteration, with progress display
WorkerProgress(w) ==
    /\ Running
    /\ wpc[w] = "progress"
    /\ run_times' = FetchAdd(run_times, 1)
    /\ wpc' = [wpc EXCEPT ![w] = "check"]
    /\ UNCHANGED << cli_args, mainVars, fail_times, total_scores, lock_owner,
                    ctrlc_signal, handlerVars, arg, it, w_run_times, w_fail_times,
                    w_total_scores, historyVars >>

\* the batch update made in both progress modes
BatchAlways == TRUE

\* `if !self.cli_args.progress` at the end of do_test
Batch == ~cli_args.progress

\* after append_result: append_run_times, or the thread ends
AfterResult == IF Batch THEN "runtimes" ELSE "done"

\* append_result: self.fail_times.fetch_add(fail_times, ..)
WorkerAppendResult(w) ==
    /\ Running
    /\ wpc[w] = "result"
    /\ fail_times' = FetchAdd(fail_times, w_fail_times[w])
    /\ wpc' = [wpc EXCEPT ![w] = IF cli_args.score THEN "lock" ELSE AfterResult]
    /\ UNCHANGED << cli_args, mainVars, run_times, total_scores, lock_owner,
                    ctrlc_signal, handlerVars, arg, it, w_run_times, w_fail_times,
                    w_total_scores, historyVars >>

\* append_result: self.total_scores.lock().unwrap()
WorkerLock(w) ==
    /\ Running
    /\ wpc[w] = "lock"
    /\ lock_owner = 0
    /\ lock_owner' = w
    /\ wpc' = [wpc EXCEPT ![w] = "add"]
    /\ UNCHANGED << cli_args, mainVars, fail_times, run_times, total_scores,
                    ctrlc_signal, handlerVars, arg, it, w_run_times, w_fail_times,
                    w_total_scores, historyVars >>

\* an assignment in place of `+=`: the other workers' scores are lost
AddScoreStore(total, local) == local

\* `*guard += total_scores`
AddScore(total, local) == total + local

\* the addition with a guard that is never dropped
WorkerAddScoreKeep(w) ==
    /\ Running
    /\ wpc[w] = "add"
    /\ lock_owner = w
    /\ total_scores' = AddScore(total_scores, w_total_scores[w])
    /\ lock_owner' = lock_owner
    /\ wpc' = [wpc EXCEPT ![w] = AfterResult]
    /\ UNCHANGED << cli_args, mainVars, fail_times, run_times, ctrlc_signal,
                    handlerVars, arg, it, w_run_times, w_fail_times, w_total_scores,
                    historyVars >>

\* append_result: `*guard += total_scores`, the guard dropped at the statement's end
WorkerAddScore(w) ==
    /\ Running
    /\ wpc[w] = "add"
    /\ lock_owner = w
    /\ total_scores' = AddScore(total_scores, w_total_scores[w])
    /\ lock_owner' = 0
    /\ wpc' = [wpc EXCEPT ![w] = AfterResult]
    /\ UNCHANGED << cli_args, mainVars, fail_times, run_times, ctrlc_signal,
                    handlerVars, arg, it, w_run_times, w_fail_times, w_total_scores,
                    historyVars >>

\* `self.append_run_times(run_times)` at the end of do_test; the thread ends
WorkerAppendRunTimes(w) ==
    /\ Running
    /\ wpc[w] = "runtimes"
    /\ run_times' = FetchAdd(run_times, w_run_times[w])
    /\ wpc' = [wpc EXCEPT ![w] = "done"]
    /\ UNCHANGED << cli_args, mainVars, fail_times, total_scores, lock_owner,
                    ctrlc_signal, handlerVars, arg, it, w_run_times, w_fail_times,
                    w_total_scores, historyVars >>

Worker(w) ==
    \/ WorkerCheck(w)
    \/ WorkerSpawn(w)
    \/ WorkerWait(w)
    \/ WorkerProgress(w)
    \/ WorkerAppendResult(w)
    \/ WorkerLock(w)
    \/ WorkerAddScore(w)
    \/ WorkerAppendRunTimes(w)

Main ==
    \/ MainSpawn
    \/ MainSpawnBreak
    \/ MainSetHandler
    \/ MainLoopTest
    \/ MainLoopPoll
    \/ MainFinish
    \/ MainJoin
    \/ MainSummary

Next ==
    \/ Main
    \/ CtrlC
    \/ \E w \in Workers : Worker(w)

Spec == Init /\ [][Next]_vars

\* The operating system schedules every thread that can run and every child
\* terminates; nothing obliges the user to press ctrl-c.
FairSpec ==
    /\ Spec
    /\ WF_vars(Main)
    /\ \A w \in Workers : WF_vars(Worker(w))

\* ------------------------------------------------------------- properties
Printed == Len(summaries) > 0

Merging(w) == wpc[w] \in {"lock", "add", "runtimes"}

\* C1: with threads >= 1, no child failure, no fatal error and no
\* cancellation, the run_times that print_summary reads equals times.
C1_RunTimesEqualsTimes ==
    (/\ Printed
     /\ cli_args.threads >= 1
     /\ ~ctrlc_signal
     /\ ~AnyPanicked
     /\ Sum(childFailed) = 0)
    => summaries[1].run_times = cli_args.times

\* C2: once the distribution loop has ended, the arguments given to do_test sum
\* to times, and the first times % threads workers got one more than the rest.
C2_ArgsAreShares ==
    mainpc # "distribute" =>
        /\ Sum(arg) = cli_args.times
        /\ \A w \in Launched :
            arg[w] = times_per_thread
                     + (IF w <= cli_args.times % threads THEN 1 ELSE 0)

\* C3: the run_times that print_summary reads is the number of iterations
\* completed (child spawned and waited for) over all workers.
C3_RunTimesIsCompleted ==
    \A i \in 1..Len(summaries) : summaries[i].run_times = Sum(completed)

\* a summary after a cancellation that skipped iterations and kept others
C3_Witness ==
    /\ Printed
    /\ ctrlc_signal
    /\ summaries[1].run_times > 0
    /\ Sum(completed) < Sum(arg)

\* C4: the fail_times that print_summary reads is the number of completed
\* iterations whose child exited unsuccessfully.
C4_FailTimesIsFailedChildren ==
    \A i \in 1..Len(summaries) : summaries[i].fail_times = Sum(childFailed)

\* a summary after two workers each merged a failure
C4_Witness ==
    /\ Printed
    /\ \E v, w \in Workers : v # w /\ childFailed[v] > 0 /\ childFailed[w] > 0

\* C5 as stated: fail_times <= run_times in every reachable state.
C5_FailLeRunAlways == fail_times <= run_times

\* C5 as amended: fail_times <= run_times in every state of a run with
\* progress display, and without it in every state in which no worker is
\* between its append_result and its append_run_times.
C5_FailLeRunWhenMerged ==
    (cli_args.progress \/ \A w \in Workers : ~Merging(w))
    => fail_times <= run_times

\* without progress display, a failure has been merged while a worker still runs
C5_Witness ==
    /\ ~cli_args.progress
    /\ fail_times > 0
    /\ \A w \in Workers : ~Merging(w)
    /\ \E w \in Workers : wpc[w] \in {"check", "spawn", "wait"}

\* C6 as stated: once the flag is set no step spawns a child.
C6_NoSpawnAfterFlag == [][ctrlc_signal => spawned' = spawned]_vars

\* C6 as amended: after the flag is set each worker spawns at most one more
\* child, the one of an iteration whose check of the flag came before the store.
C6_AtMostOneLateSpawn == \A w \in Workers : lateSpawn[w] <= 1

\* a worker that had more iterations to run spawned once after the flag was set
C6_Witness ==
    \E w \in Workers : lateSpawn[w] = 1 /\ wpc[w] = "done" /\ it[w] < arg[w]

C8_ProgressLoopEnds ==
    /\ [](bar_finished <= 1)
    /\ <>(\/ ~cli_args.progress
          \/ AnyPanicked
          \/ (bar_finished = 1 /\ Printed))

\* C9: after a worker has panicked on a failed spawn or wait no worker starts
\* another child, and the panic adds nothing to fail_times.
C9_FatalStopsAllSpawns ==
    [][/\ AnyPanicked => spawned' = spawned
       /\ (\E w \in Workers : wpc[w] # "panicked" /\ wpc'[w] = "panicked")
            => fail_times' = fail_times]_vars

\* C10: after a fatal error the process ends with a non-zero status and never
\* prints the summary; without one it prints the summary once and ends with 0.
C10_ExitBehaviour ==
    /\ [](AnyPanicked => ~Printed)
    /\ [](Len(summaries) <= 1)
    /\ (AnyPanicked ~> (exit_code # -1 /\ exit_code # 0))
    /\ <>(AnyPanicked \/ (Len(summaries) = 1 /\ exit_code = 0))

\* the scores the children of this model print on success
PrintedScores == { ParseF64(Trim(o)) : o \in Outputs } \ {NoScore}

\* C11: total_scores stays 0 when scoring is disabled; with scoring enabled the
\* total read by print_summary is s for every completed iteration that
\* succeeded and nothing for a failed one, s being the score every successful
\* child prints, so it is s * run_times when every run succeeds.
C11_TotalScoresIsSuccessfulScores ==
    /\ ~cli_args.score => total_scores = 0
    /\ (cli_args.score /\ Printed) =>
        \A s \in PrintedScores :
            /\ summaries[1].total_score
                 = s * (summaries[1].run_times - Sum(childFailed))
            /\ Sum(childFailed) = 0
                 => summaries[1].total_score = s * summaries[1].run_times

\* a summary with scoring after one worker merged a score and another the
\* result of a failed run
C11_Witness ==
    /\ cli_args.score
    /\ Printed
    /\ \E v, w \in Workers :
        /\ v # w
        /\ childScores[v] > 0
        /\ childFailed[w] > 0
    /\ summaries[1].total_score > 0

SingleWorkerRun ==
    /\ threads = 1
    /\ times_per_thread = cli_args.times
    /\ times_extra = 0
    /\ spawn_i <= 1
    /\ Launched \subseteq {1}
    /\ mainpc # "distribute" =>
        /\ Launched = IF cli_args.times > 0 THEN {1} ELSE {}
        /\ arg[1] = IF cli_args.times > 0 THEN cli_args.times ELSE 0
    /\ spawned[1] <= cli_args.times
    /\ (Printed /\ ~ctrlc_signal) =>
        /\ summaries[1].run_times = cli_args.times
        /\ summaries[1].fail_times = childFailed[1]

\* C13: a run with threads = 0 is a single-worker run, as a run with
\* threads = 1 is: one worker for any times > 0, given all the iterations, and
\* the same aggregate counters.
C13_ZeroThreadsIsOne == cli_args.threads \in {0, 1} => SingleWorkerRun

\* threads = 0: the single worker ran two iterations and the summary counts them
C13_Witness ==
    /\ cli_args.threads = 0
    /\ Printed
    /\ Launched = {1}
    /\ summaries[1].run_times = 2

\* C14: with scoring enabled and every completed run failed, print_summary
\* does not panic and the average it prints is not a number (0.0 / 0.0, NaN);
\* and `run_times - fail_times` is never evaluated with run_times < fail_times.
C14_AllFailedAverageUndefined ==
    \A i \in 1..Len(summaries) :
        LET p == summaries[i] IN
        /\ ~p.underflow
        /\ p.run_times >= p.fail_times
        /\ (p.score_line /\ p.fail_times > 0 /\ p.run_times - p.fail_times = 0)
            => /\ p.average.kind = "NaN"
               /\ exit_code = 0

\* the summary of a run with scoring whose two runs both failed
C14_Witness ==
    /\ Printed
    /\ cli_args.score
    /\ summaries[1].fail_times = 2
    /\ summaries[1].run_times = 2

\* the local counts of the workers that have ended do_test
EndedCounts == [w \in Workers |-> IF wpc[w] = "done" THEN w_run_times[w] ELSE 0]

\* the workers that completed an iteration and have not yet added it
Adding == { w \in Workers : wpc[w] = "progress" }

\* C15: without progress display run_times is the sum of the whole local counts
\* of the workers that have ended, each added once after the loop; with it
\* run_times is the number of iterations counted so far by all workers, each
\* added by 1 after the iteration and none at the end.
C15_BatchOrIncremental ==
    /\ ~cli_args.progress => run_times = Sum(EndedCounts)
    /\ cli_args.progress => run_times = Sum(w_run_times) - Cardinality(Adding)

\* with progress display: one worker has ended after adding its iteration,
\* another is about to add its own
C15_Witness ==
    /\ cli_args.progress
    /\ run_times = 1
    /\ \E v, w \in Workers :
        /\ wpc[v] = "done"
        /\ w_run_times[v] = 1
        /\ wpc[w] = "progress"

Min(a, b) == IF a <= b THEN a ELSE b

\* the share the distribution loop computes for its i-th iteration
ShareOf(i) ==
    times_per_thread + (IF i <= cli_args.times % threads THEN 1 ELSE 0)

\* C16: once the distribution loop has ended, the workers launched are those
\* whose computed share is nonzero, min(max(threads, 1), times) of them; none is
\* launched for times = 0, and then every aggregate is zero at the summary.
C16_LaunchedAreNonzeroShares ==
    /\ \A w \in Launched : share[w] = ShareOf(w) /\ share[w] > 0
    /\ mainpc # "distribute" =>
        /\ Launched = { i \in 1..threads : ShareOf(i) > 0 }
        /\ Cardinality(Launched) = Min(threads, cli_args.times)
        /\ Len(handles) = Cardinality(Launched)
    /\ cli_args.times = 0 =>
        /\ Launched = {}
        /\ Printed =>
            /\ summaries[1].run_times = 0
            /\ summaries[1].fail_times = 0
            /\ summaries[1].total_score = 0

\* threads = 2, times = 1: the loop launched the first worker and left at the
\* second, whose share is zero
C16_Witness ==
    /\ mainpc # "distribute"
    /\ threads = 2
    /\ cli_args.times = 1
    /\ spawn_i = 1
    /\ Launched = {1}

\* worker w's wait for its child returns in this step
WaitReturns(w) == wpc[w] = "wait" /\ wpc'[w] # "wait"

C18_FlagTwoStates ==
    /\ ctrlc_signal = FALSE
    /\ [][/\ ctrlc_signal => ctrlc_signal'
          /\ ctrlc_signal' # ctrlc_signal =>
                /\ handler_set
                /\ UNCHANGED << cli_args, mainVars, fail_times, run_times,
                                total_scores, lock_owner, handler_set, localVars,
                                historyVars >>]_vars
    /\ []((ctrlc_signal /\ Running) => ENABLED CtrlC)

\* the flag was set while a child ran in progress mode; the worker finished,
\* the progress loop ended and the summary was printed with the flag still set
C18_Witness ==
    /\ ctrlc_signal
    /\ cli_args.progress
    /\ bar_finished = 1
    /\ Printed
    /\ \E w \in Workers : lateDone[w] > 0 /\ wpc[w] = "done"

\* C19: the mutex is free or held by a worker that is at its one addition, so
\* never by a thread whose child is being spawned or waited for; a worker
\* acquires it only when it is free (never while holding it); the holder's
\* next step is the addition, which releases it; the summary reads the total
\* with the mutex free; and, with every thread scheduled fairly, a worker that
\* has reached lock() acquires the mutex, unless the process has ended first
\* (the main thread's join of another, panicked worker ends every thread).
C19_LockScopedToAddition ==
    /\ [](/\ lock_owner \in {0} \cup Workers
          /\ \A w \in Workers : lock_owner = w <=> wpc[w] = "add")
    /\ [][/\ \A w \in Workers :
                (lock_owner' = w /\ lock_owner # w) =>
                    (lock_owner = 0 /\ wpc[w] = "lock")
          /\ \A w \in Workers :
                (lock_owner = w /\ wpc'[w] # wpc[w]) =>
                    /\ lock_owner' = 0
                    /\ total_scores' = total_scores + w_total_scores[w]
          /\ Len(summaries') > Len(summaries) => lock_owner = 0]_vars
    /\ \A w \in Workers : (wpc[w] = "lock") ~> (wpc[w] = "add" \/ ~Running)

\* one worker holds the mutex for its addition while another has reached lock()
C19_Witness ==
    \E v, w \in Workers :
        /\ v # w
        /\ lock_owner = v
        /\ wpc[v] = "add"
        /\ wpc[w] = "lock"
        /\ Running

\* C20: no step lowers the shared run_times; run_times never exceeds
\* cli_args.times; the values the progress loop reads from it and sets on the
\* bar lie in 0..cli_args.times and never go back.
C20_RunTimesMonotoneAndBounded ==
    /\ [](/\ run_times \in 0..cli_args.times
          /\ current_progress \in 0..cli_args.times
          /\ bar_position \in 0..cli_args.times
          /\ bar_position <= run_times)
    /\ [][/\ run_times' >= run_times
          /\ bar_position' >= bar_position]_vars

\* two workers each counted an iteration in progress mode and the loop set the
\* bar to 1 and then to 2 = times
C20_Witness ==
    /\ cli_args.progress
    /\ cli_args.times = 2
    /\ threads = 2
    /\ run_times = 2
    /\ bar_position = 2
    /\ \A w \in 1..2 : w_run_times[w] = 1

====
